---- MODULE Spec2Model ----
(***************************************************************************)
(* A model of the KNTraP helper scripts:                                   *)
(*   - notes/KNTraP_download_ccdbyccd.py : the CCD-by-CCD archive          *)
(*     downloader (bounding box, CCD lookup, search, filter, token POST,   *)
(*     file GET, output file);                                             *)
(*   - query_catalog_pipe.py : the per-field photometric catalog query     *)
(*     and its query clients;                                              *)
(*   - query_milliquasar.py : the per-target quasar catalogue query.       *)
(*                                                                         *)
(* Angles are fixed-point integers in millidegrees.  Declinations and      *)
(* radii are whole degrees, so that the cosine is read from a table of     *)
(* cos(d) * CosScale for d = 0..90 degrees.  Python strings that the code  *)
(* searches, splits or concatenates are sequences of one-character         *)
(* strings; strings that are only compared are TLA+ strings.               *)
(***************************************************************************)
EXTENDS Integers, Sequences, FiniteSets, TLC

VARIABLES
    box_in,      \* get_radec_maxmin: the arguments (RAcentre, DECcentre, radius)
    box_out,     \* get_radec_maxmin: the returned (ra_min, ra_max, dec_min, dec_max)
    fieldcenters,   \* df_field_centers_selectedfield: rows (ampl, RAdeg, DECdeg)
    archive,        \* the rows the archive holds and may return to a search
    args,           \* do_not_download, debugmode, search_radius_deg
    pc,             \* position of the run in KNTraP_download_ccdbyccd
    ii,             \* number of CCD iterations completed (the loop index)
    ccd,            \* ampl of the field-centre row being worked on
    jj_base,        \* the module-level search template (its "search" list)
    searches,       \* the "search" lists POSTed to the archive, in order
    response,       \* the JSON list of the last search response
    ads_df,         \* rows of the search response after [1:]
    ads_df_with_string,  \* ads_df filtered by file_string_in_x
    idx,            \* position of iterrows() in ads_df_with_string
    processed,      \* rows of this CCD that passed the prod_type test, in order
    will_save,      \* the out_paths printed as "Will save as:" for this CCD
    cur,            \* the row being downloaded and its out_path
    token,          \* the local variable token (unbound until first assigned)
    http,           \* token POSTs and file GETs issued, with their status
    dirs,           \* directories created by makedirs_
    files,          \* output files on disk: path and content
    err,            \* the exception that ended the run, if any
    cat_in,         \* catalog script: catname, clobber, number of field-centre rows
    cpc,            \* catalog script: position of the run
    cu,             \* catalog script: the (row, filter) unit being worked on
    cat,            \* catalog script: the PhotoCatalog object of the unit
    queries,        \* catalog script: the Vizier queries issued, with their outcome
    disk,           \* catalog script: the output files that exist
    written,        \* catalog script: the tables handed to write_file, in order
    cerr,           \* catalog script: the exception that ended the run, if any
    call_in,        \* query client call: the client, its catID, the service's TableList
    call_out,       \* query client call: what the call returned or raised
    mq_t,           \* quasar script: objectName of each row of the target list
    mq_i,           \* quasar script: number of target rows gone through
    mq_done,        \* quasar script: the list done
    mq_queried,     \* quasar script: objectNames passed to query_vizier, in order
    mq_files,       \* quasar script: the CSV files written
    mq_pc,          \* quasar script: position of the run
    mq_err          \* quasar script: the exception that ended the run, if any

radecVars == <<box_in, box_out>>
catVars == <<cat_in, cpc, cu, cat, queries, disk, written, cerr>>
qVars == <<call_in, call_out, mq_t, mq_i, mq_done, mq_queried, mq_files, mq_pc, mq_err>>
dlVars == <<fieldcenters, archive, args, pc, ii, ccd, jj_base, searches, response,
           ads_df, ads_df_with_string, idx, processed, will_save, cur, token, http,
           dirs, files, err>>

\* ------------------------------------------------------------------------
\* Units and bounds
\* ------------------------------------------------------------------------
Milli == 1000
CosScale == 10000
MaxRadiusDeg == 8
RAStepDeg == 15

Deg(d) == d * Milli

\* np.cos(x*np.pi/180.0) for |x| a whole number of degrees, times CosScale.
CosTable ==
    << 10000, 9998, 9994, 9986, 9976, 9962, 9945, 9925, 9903, 9877,
       9848, 9816, 9781, 9744, 9703, 9659, 9613, 9563, 9511, 9455,
       9397, 9336, 9272, 9205, 9135, 9063, 8988, 8910, 8829, 8746,
       8660, 8572, 8480, 8387, 8290, 8192, 8090, 7986, 7880, 7771,
       7660, 7547, 7431, 7314, 7193, 7071, 6947, 6820, 6691, 6561,
       6428, 6293, 6157, 6018, 5878, 5736, 5592, 5446, 5299, 5150,
       5000, 4848, 4695, 4540, 4384, 4226, 4067, 3907, 3746, 3584,
       3420, 3256, 3090, 2924, 2756, 2588, 2419, 2250, 2079, 1908,
       1736, 1564, 1392, 1219, 1045, 872, 698, 523, 349, 175, 0 >>

Abs(x) == IF x < 0 THEN -x ELSE x
Min2(a, b) == IF a < b THEN a ELSE b

np_cos(decMilli) == CosTable[(Abs(decMilli) \div Milli) + 1]

\* ------------------------------------------------------------------------
\* get_radec_maxmin
\* ------------------------------------------------------------------------
ClampDecMin(d) == IF d < Deg(-90) THEN Deg(-90) ELSE d
ClampDecMax(d) == IF d > Deg(90) THEN Deg(90) ELSE d

IsPolar(dec_min, dec_max) == dec_min = Deg(-90) \/ dec_max = Deg(90)

\* Mutant: the wrap also fires at exactly 0.
WrapRaMin_AtZero(ra) == IF ra <= 0 THEN ra + Deg(360) ELSE ra

WrapRaMin(ra) == IF ra < 0 THEN ra + Deg(360) ELSE ra
WrapRaMax(ra) == IF ra > Deg(360) THEN ra - Deg(360) ELSE ra

RaHalfWidth(r, dec_min, dec_max) ==
    (r * CosScale) \div Min2(np_cos(dec_min), np_cos(dec_max))

\* Mutant: the pole test comes first and the Dec bounds are returned unclamped.
get_radec_maxmin_NoClamp(RAcentre, DECcentre, search_radius_deg) ==
    LET dec_min == DECcentre - search_radius_deg
        dec_max == DECcentre + search_radius_deg
    IN  IF dec_min <= Deg(-90) \/ dec_max >= Deg(90)
        THEN [ra_min |-> 0, ra_max |-> Deg(360),
              dec_min |-> dec_min, dec_max |-> dec_max]
        ELSE LET hw == RaHalfWidth(search_radius_deg, dec_min, dec_max)
             IN  [ra_min |-> WrapRaMin(RAcentre - hw),
                  ra_max |-> WrapRaMax(RAcentre + hw),
                  dec_min |-> dec_min, dec_max |-> dec_max]

get_radec_maxmin(RAcentre, DECcentre, search_radius_deg) ==
    LET dec_min == ClampDecMin(DECcentre - search_radius_deg)
        dec_max == ClampDecMax(DECcentre + search_radius_deg)
    IN  IF IsPolar(dec_min, dec_max)
        THEN [ra_min |-> 0, ra_max |-> Deg(360),
              dec_min |-> dec_min, dec_max |-> dec_max]
        ELSE LET hw == RaHalfWidth(search_radius_deg, dec_min, dec_max)
             IN  [ra_min |-> WrapRaMin(RAcentre - hw),
                  ra_max |-> WrapRaMax(RAcentre + hw),
                  dec_min |-> dec_min, dec_max |-> dec_max]

\* Field centres and radii the function is applied to: every whole-degree
\* declination, right ascensions on a grid and next to the 0/360 seam, and
\* every whole-degree radius up to MaxRadiusDeg.
RACentres ==
    {Deg(k * RAStepDeg) : k \in 0..(359 \div RAStepDeg)}
        \cup {Deg(1), Deg(359), Deg(360) - 1}
DECCentres == {Deg(d) : d \in -90..90}
Radii == {Deg(r) : r \in 1..MaxRadiusDeg}

NoBox == [set |-> FALSE]

InitRadecIdle == box_in = NoBox /\ box_out = NoBox

InitRadec ==
    /\ \E ra \in RACentres, dec \in DECCentres, r \in Radii :
          box_in = [set |-> TRUE, RAcentre |-> ra, DECcentre |-> dec,
                    search_radius_deg |-> r]
    /\ box_out = NoBox

CallGetRadecMaxmin ==
    /\ box_in.set
    /\ ~box_out.set
    /\ box_out' = [set |-> TRUE,
                   box |-> get_radec_maxmin(box_in.RAcentre, box_in.DECcentre,
                                            box_in.search_radius_deg)]
    /\ UNCHANGED <<box_in, dlVars, catVars, qVars>>

\* ------------------------------------------------------------------------
\* Strings as sequences of characters
\* ------------------------------------------------------------------------
\* Python's "sub in s".
IsSubstring(sub, s) ==
    \E i \in 1..(Len(s) - Len(sub) + 1) : SubSeq(s, i, i + Len(sub) - 1) = sub

\* Index of the first sep in s, or 0.
RECURSIVE FirstIndex(_, _, _)
FirstIndex(s, sep, i) ==
    IF i > Len(s) THEN 0
    ELSE IF s[i] = sep THEN i
    ELSE FirstIndex(s, sep, i + 1)

\* Python's s.split(sep) for a one-character sep.
RECURSIVE Split(_, _)
Split(s, sep) ==
    LET i == FirstIndex(s, sep, 1)
    IN  IF i = 0 THEN <<s>>
        ELSE <<SubSeq(s, 1, i - 1)>> \o Split(SubSeq(s, i + 1, Len(s)), sep)

\* Python's s.replace(c, '') for a one-character c.
RECURSIVE Remove(_, _)
Remove(s, c) ==
    IF s = <<>> THEN <<>>
    ELSE IF Head(s) = c THEN Remove(Tail(s), c)
    ELSE <<Head(s)>> \o Remove(Tail(s), c)

Last(s) == s[Len(s)]

DigitChars == <<"0", "1", "2", "3", "4", "5", "6", "7", "8", "9">>

\* The decimal string of a natural number.
RECURSIVE DecStr(_)
DecStr(n) ==
    IF n < 10 THEN <<DigitChars[n + 1]>>
    ELSE DecStr(n \div 10) \o <<DigitChars[(n % 10) + 1]>>

\* ------------------------------------------------------------------------
\* ccd_code_dic
\* ------------------------------------------------------------------------
\* A dictionary key is an int or a str; the unused field is a dummy.
IntKey(n) == [kind |-> "int", i |-> n, s |-> <<>>]
StrKey(s) == [kind |-> "str", i |-> 0, s |-> s]

\* The int-keyed entries of ccd_code_dic, in source order.
ccd_code_int_items ==
    <<
       [k |-> 1, v |-> "S29"], [k |-> 2, v |-> "S30"], [k |-> 3, v |-> "S31"],
       [k |-> 4, v |-> "S25"], [k |-> 5, v |-> "S26"], [k |-> 6, v |-> "S27"],
       [k |-> 7, v |-> "S28"], [k |-> 8, v |-> "S20"], [k |-> 9, v |-> "S21"],
       [k |-> 10, v |-> "S22"], [k |-> 11, v |-> "S23"], [k |-> 12, v |-> "S24"],
       [k |-> 13, v |-> "S14"], [k |-> 14, v |-> "S15"], [k |-> 15, v |-> "S16"],
       [k |-> 16, v |-> "S17"], [k |-> 17, v |-> "S18"], [k |-> 18, v |-> "S19"],
       [k |-> 19, v |-> "S8"], [k |-> 20, v |-> "S9"], [k |-> 21, v |-> "S10"],
       [k |-> 22, v |-> "S11"], [k |-> 23, v |-> "S12"], [k |-> 24, v |-> "S13"],
       [k |-> 25, v |-> "S1"], [k |-> 26, v |-> "S2"], [k |-> 27, v |-> "S3"],
       [k |-> 28, v |-> "S4"], [k |-> 29, v |-> "S5"], [k |-> 30, v |-> "S6"],
       [k |-> 31, v |-> "S7"], [k |-> 32, v |-> "N1"], [k |-> 33, v |-> "N2"],
       [k |-> 34, v |-> "N3"], [k |-> 35, v |-> "N4"], [k |-> 36, v |-> "N5"],
       [k |-> 37, v |-> "N6"], [k |-> 38, v |-> "N7"], [k |-> 39, v |-> "N8"],
       [k |-> 40, v |-> "N9"], [k |-> 41, v |-> "N10"], [k |-> 42, v |-> "N11"],
       [k |-> 43, v |-> "N12"], [k |-> 44, v |-> "N13"], [k |-> 45, v |-> "N14"],
       [k |-> 46, v |-> "N15"], [k |-> 47, v |-> "N16"], [k |-> 48, v |-> "N17"],
       [k |-> 49, v |-> "N18"], [k |-> 50, v |-> "N19"], [k |-> 51, v |-> "N20"],
       [k |-> 52, v |-> "N21"], [k |-> 53, v |-> "N22"], [k |-> 54, v |-> "N23"],
       [k |-> 55, v |-> "N24"], [k |-> 56, v |-> "N25"], [k |-> 57, v |-> "N26"],
       [k |-> 58, v |-> "N27"], [k |-> 59, v |-> "N28"], [k |-> 60, v |-> "N29"],
       [k |-> 61, v |-> "N30"], [k |-> 62, v |-> "N31"]
    >>

\* The str-keyed entries of ccd_code_dic, in source order.
ccd_code_str_items ==
    <<
       [k |-> <<"1">>, v |-> "S29"], [k |-> <<"2">>, v |-> "S30"], [k |-> <<"3">>, v |-> "S31"],
       [k |-> <<"4">>, v |-> "S25"], [k |-> <<"5">>, v |-> "S26"], [k |-> <<"6">>, v |-> "S27"],
       [k |-> <<"7">>, v |-> "S28"], [k |-> <<"8">>, v |-> "S20"], [k |-> <<"9">>, v |-> "S21"],
       [k |-> <<"1","0">>, v |-> "S22"], [k |-> <<"1","1">>, v |-> "S23"], [k |-> <<"1","2">>, v |-> "S24"],
       [k |-> <<"1","3">>, v |-> "S14"], [k |-> <<"1","4">>, v |-> "S15"], [k |-> <<"1","5">>, v |-> "S16"],
       [k |-> <<"1","6">>, v |-> "S17"], [k |-> <<"1","7">>, v |-> "S18"], [k |-> <<"1","8">>, v |-> "S19"],
       [k |-> <<"1","9">>, v |-> "S8"], [k |-> <<"2","0">>, v |-> "S9"], [k |-> <<"2","1">>, v |-> "S10"],
       [k |-> <<"2","2">>, v |-> "S11"], [k |-> <<"2","3">>, v |-> "S12"], [k |-> <<"2","4">>, v |-> "S13"],
       [k |-> <<"2","5">>, v |-> "S1"], [k |-> <<"2","6">>, v |-> "S2"], [k |-> <<"2","7">>, v |-> "S3"],
       [k |-> <<"2","8">>, v |-> "S4"], [k |-> <<"2","9">>, v |-> "S5"], [k |-> <<"3","0">>, v |-> "S6"],
       [k |-> <<"3","1">>, v |-> "S7"], [k |-> <<"3","2">>, v |-> "N1"], [k |-> <<"3","3">>, v |-> "N2"],
       [k |-> <<"3","4">>, v |-> "N3"], [k |-> <<"3","5">>, v |-> "N4"], [k |-> <<"3","6">>, v |-> "N5"],
       [k |-> <<"3","7">>, v |-> "N6"], [k |-> <<"3","8">>, v |-> "N7"], [k |-> <<"3","9">>, v |-> "N8"],
       [k |-> <<"4","0">>, v |-> "N9"], [k |-> <<"4","1">>, v |-> "N10"], [k |-> <<"4","2">>, v |-> "N11"],
       [k |-> <<"4","3">>, v |-> "N12"], [k |-> <<"4","4">>, v |-> "N13"], [k |-> <<"4","5">>, v |-> "N14"],
       [k |-> <<"4","6">>, v |-> "N15"], [k |-> <<"4","7">>, v |-> "N16"], [k |-> <<"4","8">>, v |-> "N17"],
       [k |-> <<"4","9">>, v |-> "N18"], [k |-> <<"5","0">>, v |-> "N19"], [k |-> <<"5","1">>, v |-> "N20"],
       [k |-> <<"5","2">>, v |-> "N21"], [k |-> <<"5","3">>, v |-> "N22"], [k |-> <<"5","4">>, v |-> "N23"],
       [k |-> <<"5","5">>, v |-> "N24"], [k |-> <<"5","6">>, v |-> "N25"], [k |-> <<"5","7">>, v |-> "N26"],
       [k |-> <<"5","8">>, v |-> "N27"], [k |-> <<"5","9">>, v |-> "N28"], [k |-> <<"6","0">>, v |-> "N29"],
       [k |-> <<"6","1">>, v |-> "N30"], [k |-> <<"6","2">>, v |-> "N31"]
    >>

ccd_code_dic ==
    {[k |-> IntKey(ccd_code_int_items[n].k), v |-> ccd_code_int_items[n].v] :
        n \in 1..Len(ccd_code_int_items)}
    \cup
    {[k |-> StrKey(ccd_code_str_items[n].k), v |-> ccd_code_str_items[n].v] :
        n \in 1..Len(ccd_code_str_items)}

KeyErrorOutcome == [ok |-> FALSE, v |-> "KeyError"]

\* Mutant: a key that is not in the table gets the last detector's name.
ccd_code_lookup_Default(k) ==
    IF \E e \in ccd_code_dic : e.k = k
    THEN [ok |-> TRUE, v |-> (CHOOSE e \in ccd_code_dic : e.k = k).v]
    ELSE [ok |-> TRUE, v |-> "N31"]

\* ccd_code_dic[k]: the value, or a KeyError.
ccd_code_lookup(k) ==
    IF \E e \in ccd_code_dic : e.k = k
    THEN [ok |-> TRUE, v |-> (CHOOSE e \in ccd_code_dic : e.k = k).v]
    ELSE KeyErrorOutcome

\* ------------------------------------------------------------------------
\* The downloader: KNTraP_download_ccdbyccd
\* ------------------------------------------------------------------------
MaxCCDs == 2
MaxRows == 2

pointing_name == "S82sub8"
caldat == <<"2", "0", "2", "1", "-", "0", "6", "-", "0", "5">>
file_string == <<"k", "f", "t", "t", "e", "s", "t">>
prod_types == {"image1", "wtmap", "dqmask"}

\* Archive file names: two stacked products carrying the file_string tag, one
\* product of another reduction, and a tagged name with fewer than four
\* "_"-separated parts.
FN_osi == <<"d", "/", "c", "4", "d", "_", "1", "_", "2", "_", "o", "s", "i", "_", "k", "f", "t", "t", "e", "s", "t">>
FN_osw == <<"d", "/", "c", "4", "d", "_", "1", "_", "2", "_", "o", "s", "w", "_", "k", "f", "t", "t", "e", "s", "t">>
FN_v1 == <<"d", "/", "c", "4", "d", "_", "1", "_", "2", "_", "o", "s", "i", "_", "v", "1">>
FN_short == <<"a", "_", "k", "f", "t", "t", "e", "s", "t", "_", "1", ".", "f", "i", "t", "s">>
FileNames == {FN_osi, FN_osw, FN_v1, FN_short}
ProdTypeValues == {"image1", "expmap"}
IFilter == <<"g", " ", "D", "E", "C", "a", "m">>

ArchiveRows ==
    {[archive_filename |-> f, prod_type |-> p, ifilter |-> IFilter, caldat |-> caldat] :
        f \in FileNames, p \in ProdTypeValues}

\* The first element of the JSON list the search returns: the code drops it
\* unread, whatever it holds.
HeaderRow ==
    [archive_filename |-> FN_osi, prod_type |-> "image1", ifilter |-> IFilter,
     caldat |-> caldat, md5sum |-> <<0, 0>>]

RECURSIVE SeqsUpTo(_, _)
SeqsUpTo(S, n) ==
    IF n = 0 THEN {<<>>}
    ELSE LET shorter == SeqsUpTo(S, n - 1)
         IN  shorter \cup {Append(s, x) : s \in {t \in shorter : Len(t) = n - 1}, x \in S}

\* The JSON list of a search response for CCD iteration n: nothing at all, or
\* the header followed by rows of the archive, each with its own md5sum.
WithMd5(rows, n) ==
    [p \in 1..Len(rows) |->
        [archive_filename |-> rows[p].archive_filename, prod_type |-> rows[p].prod_type,
         ifilter |-> rows[p].ifilter, caldat |-> rows[p].caldat, md5sum |-> <<n, p>>]]

SearchResponses(held, n) ==
    {<<>>} \cup {<<HeaderRow>> \o WithMd5(rows, n) : rows \in SeqsUpTo(held, MaxRows)}

\* Mutant: the first element of the JSON list is kept.
DropFirst_KeepAll(resp) == resp

\* requests.post(apiurl, json=jj).json()[1:]
DropFirst(resp) == IF resp = <<>> THEN <<>> ELSE Tail(resp)

file_string_in_x(x, fs) == IsSubstring(fs, x)

\* ads_df[[file_string_in_x(x, file_string) for x in ads_df['archive_filename']]]
RECURSIVE FilterByString(_, _)
FilterByString(rows, fs) ==
    IF rows = <<>> THEN <<>>
    ELSE IF file_string_in_x(Head(rows).archive_filename, fs)
         THEN <<Head(rows)>> \o FilterByString(Tail(rows), fs)
         ELSE FilterByString(Tail(rows), fs)

\* row['prod_type'] in prod_types
ProdTypeSelected(row) == row.prod_type \in prod_types

\* A constraint of the "search" list.
Eq(name, v) == [name |-> name, kind |-> "eq", s |-> v, lo |-> 0, hi |-> 0]
Range(name, lo, hi) == [name |-> name, kind |-> "range", s |-> <<>>, lo |-> lo, hi |-> hi]
DateRange(name, d) == [name |-> name, kind |-> "dates", s |-> d, lo |-> 0, hi |-> 0]

jj_base_search ==
    << Eq("instrument", <<"d", "e", "c", "a", "m">>),
       Eq("telescope", <<"c", "t", "4", "m">>),
       Eq("obs_type", <<"o", "b", "j", "e", "c", "t">>),
       Eq("proc_type", <<"s", "t", "a", "c", "k", "e", "d">>) >>

BoxConstraints(box) ==
    << Range("ra_center", box.ra_min, box.ra_max),
       Range("dec_center", box.dec_min, box.dec_max),
       DateRange("caldat", caldat) >>

\* Mutant: jj is the template itself, not a copy, so the appends land on it.
CopyAndAppend_NoCopy(base, extra) == [jj |-> base \o extra, base |-> base \o extra]

\* jj = copy.deepcopy(jj_base) followed by the three appends: the list that
\* is sent, and the template as it is afterwards.
CopyAndAppend(base, extra) == [jj |-> base \o extra, base |-> base]

\* Mutant: the inverted range is not detected.
RangeInverted_Never(box) == FALSE

\* if ra_min > ra_max: raise RuntimeError
RangeInverted(box) == box.ra_min > box.ra_max

\* row['archive_filename'].split('/')[-1].split('_')
NameParts(row) == Split(Last(Split(row.archive_filename, "/")), "_")

OutPath(row, ampl, ccd_code) ==
    [dir |-> [pointing |-> pointing_name, ccd |-> ampl],
     name |-> [pointing |-> pointing_name,
               caldat_filename |-> Remove(row.caldat, "-"),
               prod_type_code |-> NameParts(row)[4],
               band |-> Split(row.ifilter, " ")[1],
               file_string |-> file_string,
               ccd_code |-> ccd_code]]

\* Mutant: the download is attempted whatever --do_not_download says.
SkipDownload_Never(a) == FALSE

\* if not do_not_download (line 292): the download block is skipped.
SkipDownload(a) == a.do_not_download

\* Mutant: the status of the token response is not looked at.
TokenOk_Always(r) == TRUE

\* if r.status_code == 200
TokenOk(r) == r.status_code = 200

\* Mutant: the status of the file response is not looked at.
GetOk_Always(r2) == TRUE

\* if r2.status_code == 200
GetOk(r2) == r2.status_code = 200

\* Responses of the token endpoint and of the retrieve endpoint.
TokenResponses ==
    {[status_code |-> 200, token |-> "tok", detail |-> ""],
     [status_code |-> 401, token |-> "", detail |-> "bad credentials"]}
FileResponses ==
    {[status_code |-> 200, content |-> "bytesA", message |-> ""],
     [status_code |-> 200, content |-> "bytesB", message |-> ""],
     [status_code |-> 404, content |-> "", message |-> "no such file"]}

\* What a response carries: the token or the detail, the content or the message.
TokenBody(r) == IF r.status_code = 200 THEN r.token ELSE r.detail
FileBody(r2) == IF r2.status_code = 200 THEN r2.content ELSE r2.message

\* requests.status_codes._codes[code][0]
StatusText(code) ==
    CASE code = 200 -> "ok"
      [] code = 401 -> "unauthorized"
      [] code = 404 -> "not_found"
      [] OTHER -> "unknown"

NoErr == [type |-> "none", text |-> "", status_text |-> "", server_msg |-> ""]
Exc(type, text) == [type |-> type, text |-> text, status_text |-> "", server_msg |-> ""]

\* raise Exception(f"Could got get authorization: {token['detail']}"):
\* evaluating token['detail'] fails before the Exception is built, whatever
\* the response r holds.
AuthFailure(tok, r) ==
    IF ~tok.bound
    THEN Exc("UnboundLocalError", "token")
    ELSE Exc("TypeError", "string indices must be integers")

\* raise Exception(f'Error getting file ({status text}). {r2.json()["message"]}')
DownloadFailure(r2) ==
    [type |-> "Exception", text |-> "Error getting file",
     status_text |-> StatusText(r2.status_code), server_msg |-> r2.message]

\* open(out_path, 'wb').write(r2.content)
WriteFile(fs, path, content) ==
    {f \in fs : f.path # path} \cup {[path |-> path, content |-> content]}

NoRow == [set |-> FALSE]
Unbound == [bound |-> FALSE, val |-> ""]

\* len(ccds_to_go_through)
NumToGo == IF args.debugmode THEN 2 ELSE Len(fieldcenters)

\* Lines 237-264: one CCD's box, search and string filter.
StartCCD ==
    /\ pc = "loop"
    /\ ii < NumToGo
    /\ UNCHANGED <<fieldcenters, archive, args, token, http, dirs, files, cur, radecVars, catVars, qVars>>
    /\ IF ii + 1 > Len(fieldcenters)
       THEN /\ pc' = "failed"
            /\ err' = Exc("IndexError", "single positional indexer is out-of-bounds")
            /\ UNCHANGED <<ii, ccd, jj_base, searches, response, ads_df,
                           ads_df_with_string, idx, processed, will_save>>
       ELSE LET c == fieldcenters[ii + 1]
                box == get_radec_maxmin(c.RAdeg, c.DECdeg, args.search_radius_deg)
            IN  /\ ccd' = c.ampl
                /\ IF RangeInverted(box)
                   THEN /\ pc' = "failed"
                        /\ err' = Exc("RuntimeError", "This needs to be fixed!!")
                        /\ UNCHANGED <<ii, jj_base, searches, response, ads_df,
                                       ads_df_with_string, idx, processed, will_save>>
                   ELSE \E resp \in SearchResponses(archive, ii + 1) :
                        LET made == CopyAndAppend(jj_base, BoxConstraints(box))
                            df == DropFirst(resp)
                        IN  /\ jj_base' = made.base
                            /\ searches' = Append(searches, made.jj)
                            /\ response' = resp
                            /\ ads_df' = df
                            /\ processed' = <<>>
                            /\ will_save' = <<>>
                            /\ idx' = 1
                            /\ UNCHANGED ii
                            /\ IF df = <<>>
                               THEN /\ pc' = "failed"
                                    /\ err' = Exc("KeyError", "archive_filename")
                                    /\ UNCHANGED ads_df_with_string
                               ELSE /\ pc' = "rows"
                                    /\ err' = err
                                    /\ ads_df_with_string' = FilterByString(df, file_string)

\* Lines 269-292: the next row of iterrows(), up to the token POST.
NextRow ==
    /\ pc = "rows"
    /\ UNCHANGED <<fieldcenters, archive, args, ccd, jj_base, searches, response,
                   ads_df, ads_df_with_string, token, http, files, radecVars, catVars, qVars>>
    /\ IF idx > Len(ads_df_with_string)
       THEN /\ pc' = "loop"
            /\ ii' = ii + 1
            /\ UNCHANGED <<idx, processed, will_save, cur, dirs, err>>
       ELSE LET row == ads_df_with_string[idx]
                code == ccd_code_lookup(ccd)
            IN  /\ UNCHANGED ii
                /\ IF ~ProdTypeSelected(row)
                   THEN /\ idx' = idx + 1
                        /\ UNCHANGED <<pc, processed, will_save, cur, dirs, err>>
                   ELSE IF ~code.ok
                   THEN /\ pc' = "failed"
                        /\ err' = Exc("KeyError", "ccd")
                        /\ UNCHANGED <<idx, processed, will_save, cur, dirs>>
                   ELSE IF Len(NameParts(row)) < 4
                   THEN /\ pc' = "failed"
                        /\ err' = Exc("IndexError", "list index out of range")
                        /\ UNCHANGED <<idx, processed, will_save, cur, dirs>>
                   ELSE LET out_path == OutPath(row, ccd, code.v)
                        IN  /\ dirs' = dirs \cup {out_path.dir}
                            /\ processed' = Append(processed, row)
                            /\ will_save' = Append(will_save, out_path)
                            /\ err' = err
                            /\ IF SkipDownload(args)
                               THEN /\ idx' = idx + 1
                                    /\ UNCHANGED <<pc, cur>>
                               ELSE /\ pc' = "token"
                                    /\ cur' = [set |-> TRUE, row |-> row, out_path |-> out_path]
                                    /\ UNCHANGED idx

\* Lines 298-302 and 311-312: the token POST and its outcome.
TokenPost ==
    /\ pc = "token"
    /\ UNCHANGED <<fieldcenters, archive, args, ii, ccd, jj_base, searches, response,
                   ads_df, ads_df_with_string, idx, processed, will_save, cur, dirs,
                   files, radecVars, catVars, qVars>>
    /\ \E r \in TokenResponses :
        /\ http' = Append(http, [method |-> "POST", url |-> "get_token",
                                 fileID |-> cur.row.md5sum,
                                 status_code |-> r.status_code,
                                 body |-> TokenBody(r)])
        /\ IF TokenOk(r)
           THEN /\ token' = [bound |-> TRUE, val |-> r.token]
                /\ pc' = "get"
                /\ err' = err
           ELSE /\ pc' = "failed"
                /\ err' = AuthFailure(token, r)
                /\ UNCHANGED token

\* Lines 303-310: the file GET and its outcome.
FileGet ==
    /\ pc = "get"
    /\ UNCHANGED <<fieldcenters, archive, args, ii, ccd, jj_base, searches, response,
                   ads_df, ads_df_with_string, processed, will_save, token, dirs,
                   radecVars, catVars, qVars>>
    /\ \E r2 \in FileResponses :
        /\ http' = Append(http, [method |-> "GET", url |-> "retrieve",
                                 fileID |-> cur.row.md5sum,
                                 status_code |-> r2.status_code,
                                 body |-> FileBody(r2)])
        /\ IF GetOk(r2)
           THEN /\ files' = WriteFile(files, cur.out_path, r2.content)
                /\ idx' = idx + 1
                /\ cur' = NoRow
                /\ pc' = "rows"
                /\ err' = err
           ELSE /\ pc' = "failed"
                /\ err' = DownloadFailure(r2)
                /\ UNCHANGED <<files, idx, cur>>

\* Lines 314-318: the loop is exhausted.
Finish ==
    /\ pc = "loop"
    /\ ii = NumToGo
    /\ pc' = "done"
    /\ UNCHANGED <<fieldcenters, archive, args, ii, ccd, jj_base, searches, response,
                   ads_df, ads_df_with_string, idx, processed, will_save, cur, token,
                   http, dirs, files, err, radecVars, catVars, qVars>>

\* ------------------------------------------------------------------------
\* The catalog script: query_catalog_pipe.py
\* ------------------------------------------------------------------------
MaxFields == 2

\* Values of --catalog: the four catalogs and a name that is none of them.
CN_SM == <<"S", "M">>
CN_PS1 == <<"P", "S", "1">>
CN_APASS == <<"A", "P", "A", "S", "S">>
CN_Gaia == <<"G", "a", "i", "a">>
CN_Other == <<"2", "M", "A", "S", "S">>
CatNames == {CN_SM, CN_PS1, CN_APASS, CN_Gaia, CN_Other}

Filters == <<<<"g">>, <<"i">>>>

\* "x in catname" for one of the aliases.
HasAlias(catname, aliases) == \E a \in aliases : IsSubstring(a, catname)

\* PhotoCatalog.__init__: catID is set by the first alias test that matches
\* and is left unset when none does.
PhotoCatalog(catname, fil) ==
    LET id == IF HasAlias(catname, {<<"g", "a", "i", "a">>, <<"G", "a", "i", "a">>})
                  THEN "I/345/gaia2"
              ELSE IF HasAlias(catname, {<<"p", "s", "1">>, <<"P", "S", "1">>, <<"P", "a", "n">>})
                  THEN "II/349/ps1"
              ELSE IF HasAlias(catname, {<<"a", "p", "a", "s", "s">>, <<"A", "P", "A", "S", "S">>})
                  THEN "II/336/apass9"
              ELSE IF HasAlias(catname, {<<"s", "k", "y", "m", "a", "p", "p", "e", "r">>, <<"S", "M">>, <<"S", "k", "y", "M", "a", "p", "p", "e", "r">>})
                  THEN "II/358/smss"
              ELSE ""
    IN  [catalog |-> catname, filter |-> fil, has_catID |-> id # "", catID |-> id]

\* PhotoCatalog.query: columns_select for one filter.
columns_select(c) ==
    CASE c.catID = "I/345/gaia2" ->
            {<<"S", "o", "u", "r", "c", "e">>, <<"R", "A", "_", "I", "C", "R", "S">>, <<"e", "_", "R", "A", "_", "I", "C", "R", "S">>, <<"D", "E", "_", "I", "C", "R", "S">>, <<"e", "_", "D", "E", "_", "I", "C", "R", "S">>, <<"G", "m", "a", "g">>, <<"e", "_", "G", "m", "a", "g">>}
      [] c.catID = "II/349/ps1" ->
            {<<"o", "b", "j", "I", "D">>, <<"R", "A", "J", "2", "0", "0", "0">>, <<"D", "E", "J", "2", "0", "0", "0">>,
             c.filter \o <<"m", "a", "g">>, <<"e", "_">> \o c.filter \o <<"m", "a", "g">>}
      [] c.catID = "II/358/smss" ->
            {<<"O", "b", "j", "e", "c", "t", "I", "d">>, <<"R", "A", "I", "C", "R", "S">>, <<"D", "E", "I", "C", "R", "S">>,
             c.filter \o <<"P", "S", "F">>, <<"e", "_">> \o c.filter \o <<"P", "S", "F">>}
      [] c.catID = "II/336/apass9" ->
            {<<"R", "A", "J", "2", "0", "0", "0">>, <<"D", "E", "J", "2", "0", "0", "0">>,
             c.filter \o <<"m", "a", "g">>, <<"e", "_">> \o c.filter \o <<"m", "a", "g">>}

\* A column name with every ' replaced by _.
RECURSIVE Sanitized(_)
Sanitized(name) ==
    IF name = <<>> THEN <<>>
    ELSE <<IF Head(name) = "'" THEN "_" ELSE Head(name)>> \o Sanitized(Tail(name))

NoneTable == [none |-> TRUE, cols |-> {}]

\* What v.query_region(...) leads query() to return: None when the service
\* finds nothing, else the table of the requested columns, named as
\* requested or with the ' of a column name turned into _.
QueryResults(c) ==
    {NoneTable,
     [none |-> FALSE, cols |-> columns_select(c)],
     [none |-> FALSE, cols |-> {Sanitized(n) : n \in columns_select(c)}]}

\* Mutant: the catalog is queried again whatever the first query returned.
NeedRetry_Always(t) == TRUE

\* if t_cat is None (line 248)
NeedRetry(t) == t.none

\* if t_cat is None (line 252)
GiveUp(t) == t.none

\* t_cat.rename_column(old, new): KeyError when there is no column old.
rename_column(t, old, new) ==
    IF ~t.ok \/ old \notin t.cols
    THEN [ok |-> FALSE, cols |-> t.cols]
    ELSE [ok |-> TRUE, cols |-> (t.cols \ {old}) \cup {new}]

COL_ra == <<"r", "a">>
COL_dec == <<"d", "e", "c">>
COL_mag == <<"m", "a", "g">>
COL_e_mag == <<"e", "_", "m", "a", "g">>

\* Lines 256-265: make the table column names standard.
Standardise(catname, fil, cols) ==
    LET t0 == [ok |-> TRUE, cols |-> cols]
        t1 == IF catname = CN_APASS
                 \/ HasAlias(catname, {<<"p", "s", "1">>, <<"P", "S", "1">>, <<"P", "a", "n">>})
              THEN rename_column(
                     rename_column(
                       rename_column(
                         rename_column(t0, <<"R", "A", "J", "2", "0", "0", "0">>, COL_ra),
                         <<"D", "E", "J", "2", "0", "0", "0">>, COL_dec),
                       <<fil[1]>> \o <<"_", "m", "a", "g">>, COL_mag),
                     <<"e", "_">> \o <<fil[1]>> \o <<"_", "m", "a", "g">>, COL_e_mag)
              ELSE t0
    IN  IF HasAlias(catname, {<<"S", "M">>, <<"s", "k", "y", "m", "a", "p", "p", "e", "r">>, <<"S", "k", "y", "M", "a", "p", "p", "e", "r">>})
        THEN rename_column(
               rename_column(
                 rename_column(
                   rename_column(t1, <<"R", "A", "I", "C", "R", "S">>, COL_ra),
                   <<"D", "E", "I", "C", "R", "S">>, COL_dec),
                 fil \o <<"P", "S", "F">>, COL_mag),
               <<"e", "_">> \o fil \o <<"P", "S", "F">>, COL_e_mag)
        ELSE t1

NumUnits == cat_in.nfields * Len(Filters)
RowOf(u) == ((u - 1) \div Len(Filters)) + 1

\* fil of the unit: 'g' or 'i', with a ' appended for APASS.
FilOf(u) ==
    LET f == Filters[((u - 1) % Len(Filters)) + 1]
    IN  IF cat_in.catname = CN_APASS THEN f \o <<"'">> ELSE f

\* f"{pathdir}/{field}_{fil[0]}_{ampl}_{catname}_phot.cat"
OutFile(u) == [row |-> RowOf(u), filt |-> FilOf(u)[1], catname |-> cat_in.catname]

NoCat == [catalog |-> <<>>, filter |-> <<>>, has_catID |-> FALSE, catID |-> ""]
NoCErr == [type |-> "none", text |-> ""]

\* Lines 255-285 for a table t: rename, t_cat["mag"], write_file.
Process(t) ==
    LET std == Standardise(cat_in.catname, FilOf(cu), t.cols)
    IN  IF t.none
        THEN /\ cpc' = "failed"
             /\ cerr' = [type |-> "AttributeError", text |-> "NoneType"]
             /\ UNCHANGED <<cu, disk, written>>
        ELSE IF ~std.ok \/ COL_mag \notin std.cols
        THEN /\ cpc' = "failed"
             /\ cerr' = [type |-> "KeyError", text |-> "column"]
             /\ UNCHANGED <<cu, disk, written>>
        ELSE /\ disk' = disk \cup {OutFile(cu)}
             /\ written' = Append(written, [unit |-> cu, cols |-> std.cols])
             /\ cu' = cu + 1
             /\ cpc' = "unit"
             /\ cerr' = cerr

\* Line 232: t_centers = ascii.read(args.filename[0]), the table in the file
\* named by the first character of --filename, if there is such a file.
ReadCenters ==
    /\ cpc = "start"
    /\ UNCHANGED <<cat_in, cu, cat, queries, disk, written, radecVars, dlVars, qVars>>
    /\ IF cat_in.readable
       THEN /\ cpc' = "unit"
            /\ cerr' = cerr
       ELSE /\ cpc' = "failed"
            /\ cerr' = [type |-> "FileNotFoundError", text |-> "filename[0]"]

\* Lines 234-250: the next unit, up to the outcome of its first query.
BeginUnit ==
    /\ cpc = "unit"
    /\ cu <= NumUnits
    /\ UNCHANGED <<cat_in, radecVars, dlVars, qVars>>
    /\ IF ~cat_in.clobber /\ OutFile(cu) \in disk
       THEN /\ cu' = cu + 1
            /\ UNCHANGED <<cpc, cat, queries, disk, written, cerr>>
       ELSE LET c == PhotoCatalog(cat_in.catname, FilOf(cu))
            IN  /\ cat' = c
                /\ IF ~c.has_catID
                   THEN /\ cpc' = "failed"
                        /\ cerr' = [type |-> "AttributeError", text |-> "catID"]
                        /\ UNCHANGED <<cu, queries, disk, written>>
                   ELSE \E t \in QueryResults(c) :
                        /\ queries' = Append(queries, [unit |-> cu, found |-> ~t.none])
                        /\ IF NeedRetry(t)
                           THEN /\ cpc' = "retry"
                                /\ UNCHANGED <<cu, disk, written, cerr>>
                           ELSE Process(t)

\* Lines 251-254: the second query of a unit and its outcome.
Requery ==
    /\ cpc = "retry"
    /\ UNCHANGED <<cat_in, cat, radecVars, dlVars, qVars>>
    /\ \E t \in QueryResults(cat) :
        /\ queries' = Append(queries, [unit |-> cu, found |-> ~t.none])
        /\ IF GiveUp(t)
           THEN /\ cu' = cu + 1
                /\ cpc' = "unit"
                /\ UNCHANGED <<disk, written, cerr>>
           ELSE Process(t)

\* The loops over t_centers and the filters are exhausted.
FinishCat ==
    /\ cpc = "unit"
    /\ cu > NumUnits
    /\ cpc' = "done"
    /\ UNCHANGED <<cat_in, cu, cat, queries, disk, written, cerr, radecVars, dlVars, qVars>>

InitCatRun ==
    /\ cu = 1
    /\ cat = NoCat
    /\ queries = <<>>
    /\ written = <<>>
    /\ cerr = NoCErr

InitCatIdle ==
    /\ cat_in = [catname |-> CN_SM, clobber |-> FALSE, nfields |-> 0,
                 readable |-> FALSE]
    /\ cpc = "off"
    /\ disk = {}
    /\ InitCatRun

InitCat ==
    /\ cat_in \in [catname : CatNames, clobber : BOOLEAN, nfields : 1..MaxFields,
                   readable : BOOLEAN]
    /\ cpc = "start"
    /\ disk \in SUBSET {OutFile(u) : u \in 1..NumUnits}
    /\ InitCatRun


\* ------------------------------------------------------------------------
\* The catalog query clients: PhotoCatalog.query, query_gaia_astrom and the
\* quasar script query_milliquasar.py
\* ------------------------------------------------------------------------
MaxTableRows == 2
MaxTargets == 3

CatIDs == {"I/345/gaia2", "II/349/ps1", "II/336/apass9", "II/358/smss"}

\* What query_region returns for one catalog: a TableList, here a sequence of
\* tables (key, number of rows).  It is empty when nothing is found.
ServiceResults(catalog) ==
    {<<>>} \cup {<<[key |-> catalog, nrows |-> n]>> : n \in 0..MaxTableRows}

NoTable == [key |-> "", nrows |-> 0]

\* t_result[key]: the table of that key, KeyError when there is none.
TableListByKey(tl, key) ==
    IF \E i \in 1..Len(tl) : tl[i].key = key
    THEN [raised |-> "none",
          table |-> tl[CHOOSE i \in 1..Len(tl) : tl[i].key = key]]
    ELSE [raised |-> "KeyError", table |-> NoTable]

\* result[n]: the n-th table (from 0), IndexError when there is none.
TableListByIndex(tl, n) ==
    IF n + 1 <= Len(tl)
    THEN [raised |-> "none", table |-> tl[n + 1]]
    ELSE [raised |-> "IndexError", table |-> NoTable]

Returned(tab) == [raised |-> "none", none |-> FALSE, table |-> tab]
ReturnedNone == [raised |-> "none", none |-> TRUE, table |-> NoTable]
Raised(e) == [raised |-> e, none |-> FALSE, table |-> NoTable]

\* PhotoCatalog.query, lines 117-121.
PhotoCatalog_query(catID, t_result) ==
    IF Len(t_result) = 0
    THEN ReturnedNone
    ELSE LET got == TableListByKey(t_result, catID)
         IN  IF got.raised # "none" THEN Raised(got.raised) ELSE Returned(got.table)

\* GaiaAstrometry.query_gaia_astrom, lines 165-169: t_result[self.catID] is
\* evaluated for the test.
query_gaia_astrom(catID, t_result) ==
    LET got == TableListByKey(t_result, catID)
    IN  IF got.raised # "none" THEN Raised(got.raised)
        ELSE IF got.table.nrows = 0 THEN ReturnedNone
        ELSE Returned(got.table)

\* query_vizier, line 34: result[0].write(outfile, ...); returns None.
query_vizier(result, outfile) ==
    LET got == TableListByIndex(result, 0)
    IN  IF got.raised # "none"
        THEN [raised |-> got.raised, wrote |-> {}]
        ELSE [raised |-> "none",
              wrote |-> {[outfile |-> outfile, nrows |-> got.table.nrows]}]

NoCall == [set |-> FALSE, raised |-> "none", none |-> FALSE, table |-> NoTable]

\* cat.query() on a PhotoCatalog whose catID is set.
CallPhotoQuery ==
    /\ call_in.client = "PhotoCatalog.query"
    /\ ~call_out.set
    /\ LET r == PhotoCatalog_query(call_in.catID, call_in.t_result)
       IN  call_out' = [set |-> TRUE, raised |-> r.raised, none |-> r.none,
                        table |-> r.table]
    /\ UNCHANGED <<call_in, mq_t, mq_i, mq_done, mq_queried, mq_files, mq_pc, mq_err,
                   radecVars, dlVars, catVars>>

\* gaia.query_gaia_astrom()
CallGaiaAstrom ==
    /\ call_in.client = "GaiaAstrometry.query_gaia_astrom"
    /\ ~call_out.set
    /\ LET r == query_gaia_astrom(call_in.catID, call_in.t_result)
       IN  call_out' = [set |-> TRUE, raised |-> r.raised, none |-> r.none,
                        table |-> r.table]
    /\ UNCHANGED <<call_in, mq_t, mq_i, mq_done, mq_queried, mq_files, mq_pc, mq_err,
                   radecVars, dlVars, catVars>>

InSeq(x, sq) == \E i \in 1..Len(sq) : sq[i] = x

\* query_milliquasar.py lines 45-55: one row of the target list.
MqNextTarget ==
    /\ mq_pc = "loop"
    /\ mq_i < Len(mq_t)
    /\ UNCHANGED <<call_in, call_out, mq_t, radecVars, dlVars, catVars>>
    /\ LET name == mq_t[mq_i + 1]
       IN  IF InSeq(name, mq_done)
           THEN /\ mq_i' = mq_i + 1
                /\ UNCHANGED <<mq_done, mq_queried, mq_files, mq_pc, mq_err>>
           ELSE \E result \in ServiceResults("VII/294") :
                LET r == query_vizier(result, name)
                IN  /\ mq_queried' = Append(mq_queried, name)
                    /\ IF r.raised # "none"
                       THEN /\ mq_pc' = "failed"
                            /\ mq_err' = r.raised
                            /\ UNCHANGED <<mq_i, mq_done, mq_files>>
                       ELSE /\ mq_files' = {f \in mq_files : f.outfile # name} \cup r.wrote
                            /\ mq_done' = Append(mq_done, name)
                            /\ mq_i' = mq_i + 1
                            /\ UNCHANGED <<mq_pc, mq_err>>

\* The target list is exhausted.
MqFinish ==
    /\ mq_pc = "loop"
    /\ mq_i = Len(mq_t)
    /\ mq_pc' = "done"
    /\ UNCHANGED <<call_in, call_out, mq_t, mq_i, mq_done, mq_queried, mq_files, mq_err,
                   radecVars, dlVars, catVars>>

TargetNames == {"KNTraP-A", "KNTraP-B"}

InitQueryRun ==
    /\ call_out = NoCall
    /\ mq_i = 0
    /\ mq_done = <<>>
    /\ mq_queried = <<>>
    /\ mq_files = {}
    /\ mq_err = "none"

\* No query client runs: the state of the other specifications.
InitQueryIdle ==
    /\ call_in = [client |-> "none", catID |-> "", t_result |-> <<>>]
    /\ mq_t = <<>>
    /\ mq_pc = "off"
    /\ InitQueryRun

InitQuery ==
    /\ \E cl \in {"PhotoCatalog.query", "GaiaAstrometry.query_gaia_astrom"} :
       \E id \in (IF cl = "PhotoCatalog.query" THEN CatIDs ELSE {"I/345/gaia2"}) :
       \E tl \in ServiceResults(id) :
          call_in = [client |-> cl, catID |-> id, t_result |-> tl]
    /\ mq_t \in SeqsUpTo(TargetNames, MaxTargets)
    /\ mq_pc = "loop"
    /\ InitQueryRun

\* The rows of the field-centres file a run may select: a CCD away from the
\* RA seam, one next to a pole, one whose ampl is not a CCD ordinal, and one
\* on the RA seam.
CentreChoices ==
    {[ampl |-> IntKey(1), RAdeg |-> Deg(180), DECdeg |-> Deg(0)],
     [ampl |-> StrKey(<<"6", "2">>), RAdeg |-> Deg(10), DECdeg |-> Deg(89)],
     [ampl |-> IntKey(63), RAdeg |-> Deg(180), DECdeg |-> Deg(0)],
     [ampl |-> IntKey(1), RAdeg |-> Deg(0), DECdeg |-> Deg(0)]}

InitDownloaderRun ==
    /\ ii = 0
    /\ ccd = IntKey(0)
    /\ jj_base = jj_base_search
    /\ searches = <<>>
    /\ response = <<>>
    /\ ads_df = <<>>
    /\ ads_df_with_string = <<>>
    /\ idx = 1
    /\ processed = <<>>
    /\ will_save = <<>>
    /\ cur = NoRow
    /\ token = Unbound
    /\ http = <<>>
    /\ dirs = {}
    /\ files = {}
    /\ err = NoErr

InitDownloader ==
    /\ fieldcenters \in SeqsUpTo(CentreChoices, MaxCCDs)
    /\ archive = ArchiveRows
    /\ args \in [do_not_download : BOOLEAN, debugmode : BOOLEAN,
                 search_radius_deg : {Deg(1)}]
    /\ pc = "loop"
    /\ InitDownloaderRun

\* No downloader run: the state of the other specifications.
InitDownloaderIdle ==
    /\ fieldcenters = <<>>
    /\ archive = {}
    /\ args = [do_not_download |-> TRUE, debugmode |-> FALSE,
               search_radius_deg |-> Deg(1)]
    /\ pc = "off"
    /\ InitDownloaderRun

Init == InitDownloader /\ InitRadecIdle /\ InitCatIdle /\ InitQueryIdle

Next == StartCCD \/ NextRow \/ TokenPost \/ FileGet \/ Finish

vars == <<radecVars, dlVars, catVars, qVars>>

Spec == Init /\ [][Next]_vars

\* The downloader run on one field-centre row whose ampl is any key near or
\* in the table, of either type, against an archive of two files.
NumCCDs == 62
KeyMargin == 2

LookupKeys ==
    {IntKey(n) : n \in (0 - KeyMargin)..(NumCCDs + KeyMargin)}
        \cup {StrKey(DecStr(n)) : n \in 0..(NumCCDs + KeyMargin)}
        \cup {StrKey(<<"0", "1">>), StrKey(<<>>)}

InitCcd ==
    /\ \E k \in LookupKeys :
          fieldcenters = <<[ampl |-> k, RAdeg |-> Deg(180), DECdeg |-> Deg(0)]>>
    /\ archive = {r \in ArchiveRows :
                     r.prod_type = "image1" /\ r.archive_filename \in {FN_osi, FN_v1}}
    /\ args \in [do_not_download : BOOLEAN, debugmode : {FALSE},
                 search_radius_deg : {Deg(1)}]
    /\ pc = "loop"
    /\ InitDownloaderRun
    /\ InitRadecIdle
    /\ InitCatIdle
    /\ InitQueryIdle

SpecCcd == InitCcd /\ [][Next]_vars

\* get_radec_maxmin applied to every field centre and radius of the grid.
InitRadecSpec == InitRadec /\ InitDownloaderIdle /\ InitCatIdle /\ InitQueryIdle

NextRadec == CallGetRadecMaxmin

SpecRadec == InitRadecSpec /\ [][NextRadec]_vars

\* The catalog script run on every catalog name, clobber setting and set of
\* output files already on disk.
InitCatSpec == InitCat /\ InitDownloaderIdle /\ InitRadecIdle /\ InitQueryIdle

NextCat == ReadCenters \/ BeginUnit \/ Requery \/ FinishCat

SpecCat == InitCatSpec /\ [][NextCat]_vars

\* Each query client called on every result of the service, and the quasar
\* script run on every target list.
InitQuerySpec == InitQuery /\ InitDownloaderIdle /\ InitRadecIdle /\ InitCatIdle

NextQuery == CallPhotoQuery \/ CallGaiaAstrom \/ MqNextTarget \/ MqFinish

SpecQuery == InitQuerySpec /\ [][NextQuery]_vars

\* ------------------------------------------------------------------------
\* Properties of get_radec_maxmin (under SpecRadec)
\* ------------------------------------------------------------------------
Box == box_out.box
InDecMin == box_in.DECcentre - box_in.search_radius_deg
InDecMax == box_in.DECcentre + box_in.search_radius_deg

\* The centre and radius are valid: RA in [0, 360), Dec in [-90, 90], r > 0.
ValidInput ==
    /\ 0 <= box_in.RAcentre /\ box_in.RAcentre < 360 * Milli
    /\ -90 * Milli <= box_in.DECcentre /\ box_in.DECcentre <= 90 * Milli
    /\ box_in.search_radius_deg > 0

\* The clamped box does not touch a pole.
NonPolarBox == Box.dec_min > -90 * Milli /\ Box.dec_max < 90 * Milli

\* The RA half-width r / min(cos(dec_min), cos(dec_max)) of a non-polar box.
HalfWidth ==
    (box_in.search_radius_deg * CosScale)
        \div Min2(np_cos(Box.dec_min), np_cos(Box.dec_max))

\* The window RAcentre +- half-width does not cross RA 0 or RA 360.
WindowInside ==
    /\ box_in.RAcentre - HalfWidth >= 0
    /\ box_in.RAcentre + HalfWidth <= 360 * Milli

\* C5 (as claimed): for every valid field centre and positive radius
\* get_radec_maxmin returns ra_min <= ra_max.
C5_NeverInverted ==
    (box_out.set /\ ValidInput) => Box.ra_min <= Box.ra_max

\* C5 (amended): for every valid field centre and positive radius,
\* get_radec_maxmin returns ra_min <= ra_max when the box touches a pole or
\* when the window RAcentre +- half-width stays within [0, 360].
C5_OrderedUnlessSeamCrossed ==
    (box_out.set /\ ValidInput) =>
        /\ ~NonPolarBox => Box.ra_min <= Box.ra_max
        /\ (NonPolarBox /\ WindowInside) => Box.ra_min < Box.ra_max

C5_Witness ==
    /\ box_out.set /\ ValidInput /\ NonPolarBox /\ WindowInside
    /\ box_in.RAcentre - HalfWidth = 0
    /\ Box.ra_min = 0 /\ Box.ra_max > 0

\* C6: for every non-polar box computed from a centre RA in [0, 360) and a
\* positive radius, both returned RA bounds lie in [0, 360).
C6_RaBoundsInRange ==
    (box_out.set /\ ValidInput /\ NonPolarBox) =>
        /\ 0 <= Box.ra_min /\ Box.ra_min < 360 * Milli
        /\ 0 <= Box.ra_max /\ Box.ra_max < 360 * Milli

Clamp90(d) ==
    IF d < -90 * Milli THEN -90 * Milli ELSE IF d > 90 * Milli THEN 90 * Milli ELSE d

\* C7: the returned Dec bounds are Dec - r and Dec + r clamped to [-90, 90],
\* and if Dec - r < -90 or Dec + r > 90 the returned RA range is exactly
\* ra_min = 0, ra_max = 360, whatever the centre RA.
C7_DecClampedAndPolarFullRange ==
    (box_out.set /\ ValidInput) =>
        /\ Box.dec_min = Clamp90(InDecMin)
        /\ Box.dec_max = Clamp90(InDecMax)
        /\ (InDecMin < -90 * Milli \/ InDecMax > 90 * Milli) =>
               (Box.ra_min = 0 /\ Box.ra_max = 360 * Milli)

C7_Witness ==
    /\ box_out.set /\ ValidInput
    /\ InDecMax > 90 * Milli
    /\ box_in.RAcentre = 180 * Milli
    /\ Box.dec_max = 90 * Milli /\ Box.dec_min = InDecMin
    /\ Box.ra_min = 0 /\ Box.ra_max = 360 * Milli

\* ------------------------------------------------------------------------
\* Properties of the downloader (under Spec)
\* ------------------------------------------------------------------------
LastHttp == http[Len(http)]

\* A request was issued in this step, and this is it.
Issued == Len(http') = Len(http) + 1
NewHttp == http'[Len(http')]

\* Every file GET in the log directly follows a token POST for the same file
\* that returned 200, and nothing follows a token POST that did not.
TokenGate(log) ==
    \A i \in 1..Len(log) :
        /\ log[i].method = "GET" =>
              /\ i > 1
              /\ log[i - 1].method = "POST"
              /\ log[i - 1].fileID = log[i].fileID
              /\ log[i - 1].status_code = 200
        /\ (log[i].method = "POST" /\ log[i].status_code # 200) => i = Len(log)

C1_Step ==
    /\ TokenGate(http')
    /\ (Issued /\ NewHttp.method = "POST" /\ NewHttp.status_code # 200) =>
          /\ ~args.do_not_download
          /\ pc' = "failed"
          /\ err'.type # "none"
          /\ files' = files

\* C1: when the token POST for a selected file returns a status other than
\* 200 the run raises, no file GET is issued for that file and no output file
\* is written; a file GET is only ever issued after a token POST for the same
\* file returned 200.
C1_TokenGatesFileGet == [][C1_Step]_vars

C1_Witness ==
    /\ pc = "failed"
    /\ Len(http) = 3
    /\ http[2].method = "GET" /\ http[2].status_code = 200
    /\ LastHttp.method = "POST" /\ LastHttp.status_code = 401
    /\ Cardinality(files) = 1

C2_Step ==
    /\ (Issued /\ NewHttp.method = "GET" /\ NewHttp.status_code # 200) =>
          /\ pc' = "failed"
          /\ err'.type = "Exception"
          /\ err'.text = "Error getting file"
          /\ err'.status_text = "not_found"
          /\ err'.server_msg = NewHttp.body
          /\ files' = files
    /\ files' # files =>
          /\ Issued /\ NewHttp.method = "GET" /\ NewHttp.status_code = 200
          /\ cur.set
          /\ files' \ files = {[path |-> cur.out_path, content |-> NewHttp.body]}
          /\ \A f \in files : f.path # cur.out_path => f \in files'
          /\ \A f \in files' : f.path = cur.out_path => f.content = NewHttp.body

\* C2: when the file GET returns a status other than 200 the run raises a
\* download failure and the output files are left as they were; an output
\* file is written only after a file GET returned 200, at the computed path,
\* with that response's body as its content.
C2_WriteOnlyAfterGet200 == [][C2_Step]_vars

C2_Witness ==
    /\ pc = "failed"
    /\ err.type = "Exception" /\ err.text = "Error getting file"
    /\ Len(http) = 4
    /\ http[2].method = "GET" /\ http[2].status_code = 200
    /\ LastHttp.method = "GET" /\ LastHttp.status_code = 404
    /\ files = {[path |-> cur.out_path, content |-> http[2].body]}

\* C3: when the token POST returns a non-success status the run fails with an
\* authorization error whose message carries the detail message of that
\* response, for the first file of a run and for any later file.
C3_AuthErrorCarriesDetail ==
    (pc = "failed" /\ http # <<>> /\ LastHttp.method = "POST") =>
        /\ err.type = "Exception"
        /\ err.server_msg = LastHttp.body

\* The RA window computed for the n-th field-centre row.
WindowOf(n) ==
    get_radec_maxmin(fieldcenters[n].RAdeg, fieldcenters[n].DECdeg,
                     args.search_radius_deg)

\* C4: whenever the RA window computed for a CCD the run goes through has
\* ra_min > ra_max the run raises, no search request is sent for that window
\* (no search with an inverted ra_center range is ever sent) and no file is
\* requested for that CCD.  A row beyond the CCDs to go through (debug mode
\* visits two) never has its window computed.
C4_InvertedWindowRaises ==
    /\ \A n \in 1..Len(fieldcenters) :
          (n <= NumToGo /\ WindowOf(n).ra_min > WindowOf(n).ra_max) =>
              /\ ii < n
              /\ Len(searches) < n
              /\ \A i \in 1..Len(http) : http[i].fileID[1] # n
              /\ (ii = n - 1 /\ pc # "loop") =>
                    (pc = "failed" /\ err.type = "RuntimeError")
    /\ \A k \in 1..Len(searches) : \A j \in 1..Len(searches[k]) :
          searches[k][j].name = "ra_center" => searches[k][j].lo <= searches[k][j].hi

C4_Witness ==
    /\ pc = "failed" /\ err.type = "RuntimeError"
    /\ ii = 1
    /\ Len(searches) = 1
    /\ files # {}
    /\ WindowOf(2).ra_min > WindowOf(2).ra_max

\* The rows the claim selects: the response without its first element, kept
\* where archive_filename contains file_string and prod_type is whitelisted.
AfterFirst(resp) == [i \in 1..(Len(resp) - 1) |-> resp[i + 1]]
SelectedRow(row) ==
    /\ \E i \in 1..Len(row.archive_filename) :
          i + Len(file_string) - 1 <= Len(row.archive_filename)
          /\ \A j \in 1..Len(file_string) :
                row.archive_filename[i + j - 1] = file_string[j]
    /\ row.prod_type \in {"image1", "wtmap", "dqmask"}
ExpectedRows == SelectSeq(AfterFirst(response), SelectedRow)

IsPrefix(a, b) == Len(a) <= Len(b) /\ SubSeq(b, 1, Len(a)) = a

\* The files a token was requested for in CCD iteration n, in order.
PostedFor(n) ==
    LET posts == SelectSeq(http, LAMBDA h : h.method = "POST" /\ h.fileID[1] = n)
    IN  [i \in 1..Len(posts) |-> posts[i].fileID]

Md5s(rows) == [i \in 1..Len(rows) |-> rows[i].md5sum]

\* A CCD iteration is under way or has just ended.
InCCD == pc \in {"rows", "token", "get"}
EndedCCD == pc \in {"loop", "done"} /\ ii >= 1 /\ ii <= Len(fieldcenters)

\* C8: for each CCD the rows processed (path built, and downloaded unless
\* dry-run) are the rows of the search response after its first, whose
\* archive_filename contains file_string and whose prod_type is whitelisted,
\* once each in response order: a prefix of them while the iteration runs
\* (or when an exception ended it), all of them when it ends.
C8_ProcessedAreSelected ==
    /\ IsPrefix(processed, ExpectedRows)
    /\ Len(will_save) = Len(processed)
    /\ (InCCD \/ EndedCCD) =>
          /\ ~args.do_not_download =>
                PostedFor(IF InCCD THEN ii + 1 ELSE ii) =
                    Md5s(IF pc = "token"
                         THEN SubSeq(processed, 1, Len(processed) - 1)
                         ELSE processed)
          /\ args.do_not_download => http = <<>>
    /\ EndedCCD => processed = ExpectedRows

C8_Witness ==
    /\ pc = "loop" /\ ii = 1
    /\ ~args.do_not_download
    /\ Len(response) = 3
    /\ ~SelectedRow(response[2]) /\ SelectedRow(response[3])
    /\ processed = <<response[3]>>
    /\ Cardinality(files) = 1

\* ------------------------------------------------------------------------
\* Properties of ccd_code_dic (under SpecCcd)
\* ------------------------------------------------------------------------
\* The key is a CCD ordinal 1..62, as an int or as its decimal string.
OrdinalKey(k) ==
    \/ k.kind = "int" /\ k.i \in 1..NumCCDs
    \/ k.kind = "str" /\ \E n \in 1..NumCCDs : k.s = DecStr(n)

\* The table holds the ordinals 1..62 in both forms and nothing else, the
\* two forms of an ordinal name the same detector, 1 is S29 and 62 is N31.
TableExact ==
    /\ \A e \in ccd_code_dic : OrdinalKey(e.k)
    /\ \A e1, e2 \in ccd_code_dic : e1.k = e2.k => e1.v = e2.v
    /\ \A n \in 1..NumCCDs :
          /\ \E e \in ccd_code_dic : e.k = IntKey(n)
          /\ \E e \in ccd_code_dic : e.k = StrKey(DecStr(n))
          /\ \A e1, e2 \in ccd_code_dic :
                (e1.k = IntKey(n) /\ e2.k = StrKey(DecStr(n))) => e1.v = e2.v
    /\ \E e \in ccd_code_dic : e.k = IntKey(1) /\ e.v = "S29"
    /\ \E e \in ccd_code_dic : e.k = IntKey(NumCCDs) /\ e.v = "N31"

\* The name the table gives the ordinal that key k spells.
NameOfOrdinal(k) ==
    LET n == IF k.kind = "int" THEN k.i
             ELSE CHOOSE m \in 1..NumCCDs : k.s = DecStr(m)
    IN  (CHOOSE e \in ccd_code_dic : e.k = IntKey(n)).v

\* C9: ccd_code_dic is defined for exactly the ordinals 1..62 in int and str
\* form, both forms giving the same name, 1 giving S29 and 62 giving N31; a
\* run whose CCD is such an ordinal names its files after that detector, and
\* a run whose CCD is any other key (0, 63, ...) ends in a KeyError at the
\* first selected row, with no path built and nothing requested or written.
C9_LookupExactOrAbort ==
    /\ TableExact
    /\ \A n \in 1..Len(fieldcenters) :
          LET k == fieldcenters[n].ampl
          IN  IF OrdinalKey(k)
              THEN /\ \A i \in 1..Len(will_save) :
                         will_save[i].name.ccd_code = NameOfOrdinal(k)
                   /\ ~(pc = "failed" /\ err.type = "KeyError" /\ err.text = "ccd")
              ELSE /\ will_save = <<>> /\ dirs = {} /\ http = <<>> /\ files = {}
                   /\ pc \notin {"token", "get"}
                   /\ (ExpectedRows # <<>> /\ pc \notin {"loop", "rows"}) =>
                         (pc = "failed" /\ err.type = "KeyError" /\ err.text = "ccd")
                   /\ (pc = "rows" /\ idx > 1) =>
                         ~SelectedRow(ads_df_with_string[idx - 1])

C9_Witness ==
    /\ pc = "failed" /\ err.type = "KeyError" /\ err.text = "ccd"
    /\ ccd = IntKey(NumCCDs + 1)
    /\ ~args.do_not_download
    /\ Len(response) = 3 /\ ~SelectedRow(response[2]) /\ SelectedRow(response[3])

\* ------------------------------------------------------------------------
\* Properties of the catalog script (under SpecCat)
\* ------------------------------------------------------------------------
QueriesOf(u) == SelectSeq(queries, LAMBDA q : q.unit = u)
WrittenUnits == {written[i].unit : i \in 1..Len(written)}

\* C10: each (row, filter) unit is queried at most twice, the second time
\* only when the first query found nothing; when both found nothing the unit
\* is skipped with no output file written and the loop goes on to the next
\* unit.
C10_AtMostOneRequery ==
    \A u \in 1..NumUnits :
        LET qs == QueriesOf(u)
        IN  /\ Len(qs) <= 2
            /\ Len(qs) = 2 => ~qs[1].found
            /\ (Len(qs) = 1 /\ ~qs[1].found) => (cu = u /\ cpc = "retry")
            /\ (Len(qs) = 2 /\ ~qs[2].found) =>
                  /\ u \notin WrittenUnits
                  /\ cu > u
                  /\ (cu = u + 1 /\ QueriesOf(cu) = <<>>) =>
                        (cpc \in {"unit", "done"} /\ cerr.type = "none")
            /\ u > cu => qs = <<>>

C10_Witness ==
    /\ Len(QueriesOf(1)) = 2
    /\ ~queries[1].found /\ ~queries[2].found
    /\ Len(queries) = 3 /\ queries[3].unit = 2 /\ queries[3].found
    /\ WrittenUnits = {2}
    /\ cpc = "unit"

\* The name given to --catalog matches none of the aliases of __init__.
Unrecognized == ~PhotoCatalog(cat_in.catname, Filters[1]).has_catID

\* C11: with a catalog name that matches none of the known aliases, a run
\* that has read its field centres raises nothing: it never ends in an
\* exception, and once the loop is over every unit has been visited.
C11_UnrecognizedNeverRaises ==
    (Unrecognized /\ cat_in.readable) =>
        /\ cerr.type = "none"
        /\ cpc # "failed"
        /\ cpc = "done" => cu = NumUnits + 1

\* The columns the claim names for band fil of the Pan-STARRS schema.
PS1Requested(fil) ==
    {<<"R", "A", "J", "2", "0", "0", "0">>, <<"D", "E", "J", "2", "0", "0", "0">>,
     fil \o <<"m", "a", "g">>, <<"e", "_">> \o fil \o <<"m", "a", "g">>}
Canonical == {COL_ra, COL_dec, COL_mag, COL_e_mag}
FoundUnits == {queries[i].unit : i \in {j \in 1..Len(queries) : queries[j].found}}

\* C13: in a run on the Pan-STARRS catalog the columns requested for band b
\* include RAJ2000, DEJ2000, {b}mag and e_{b}mag, the rename step does not
\* fail, every unit for which a table was found is handed to write_file, and
\* every table handed to write_file has the columns ra, dec, mag and e_mag.
C13_PS1CanonicalColumns ==
    cat_in.catname = CN_PS1 =>
        /\ cat.has_catID => PS1Requested(cat.filter) \subseteq columns_select(cat)
        /\ cerr.type # "KeyError"
        /\ \A u \in FoundUnits : u < cu => u \in WrittenUnits
        /\ \A i \in 1..Len(written) : Canonical \subseteq written[i].cols

FixedPairs ==
    << <<"instrument", <<"d", "e", "c", "a", "m">>>>,
       <<"telescope", <<"c", "t", "4", "m">>>>,
       <<"obs_type", <<"o", "b", "j", "e", "c", "t">>>>,
       <<"proc_type", <<"s", "t", "a", "c", "k", "e", "d">>>> >>

\* sq starts with exactly the four fixed constraints, in order.
HasFixedFour(sq) ==
    /\ Len(sq) >= 4
    /\ \A i \in 1..4 :
          /\ sq[i].kind = "eq"
          /\ sq[i].name = FixedPairs[i][1]
          /\ sq[i].s = FixedPairs[i][2]

\* C15: at every point of a run jj_base holds exactly the four fixed
\* constraints, and the k-th search sent holds exactly those four followed by
\* the ra_center range and the dec_center range of the k-th CCD's box and by
\* caldat: seven constraints, none from an earlier CCD.
C15_TemplateUnchanged ==
    /\ Len(jj_base) = 4
    /\ HasFixedFour(jj_base)
    /\ \A k \in 1..Len(searches) :
          LET sq == searches[k]
              w == WindowOf(k)
          IN  /\ Len(sq) = 7
              /\ HasFixedFour(sq)
              /\ sq[5] = Range("ra_center", w.ra_min, w.ra_max)
              /\ sq[6] = Range("dec_center", w.dec_min, w.dec_max)
              /\ sq[7] = DateRange("caldat", caldat)

C15_Witness ==
    /\ pc = "done"
    /\ Len(searches) = 2
    /\ searches[1] # searches[2]
    /\ Len(jj_base) = 4
    /\ Len(searches[2]) = 7

\* ------------------------------------------------------------------------
\* Properties of the query clients (under SpecQuery)
\* ------------------------------------------------------------------------
\* The distinct objectNames of the first n rows of the target list.
NamesUpTo(n) == {mq_t[i] : i \in 1..n}
QueriedNames == {mq_queried[i] : i \in 1..Len(mq_queried)}

\* C12: no query client raises on an empty or absent service result: a call
\* of PhotoCatalog.query or query_gaia_astrom ends with a table or with None,
\* the quasar script never ends in an exception, and when its loop is over
\* every target of the list has been queried.
C12_EmptyResultNeverRaises ==
    /\ call_out.set => call_out.raised = "none"
    /\ mq_err = "none"
    /\ mq_pc # "failed"
    /\ mq_pc = "done" => QueriedNames = NamesUpTo(Len(mq_t))

====
